---- MODULE Spec2Model ----
(***************************************************************************)
(* Model of the phrase index of the bluehook worker                        *)
(* (worker/src/bulk_search_tree.rs): a radix tree of byte chunks rooted at *)
(* an array indexed by the first byte of a phrase, with add_item,          *)
(* remove_item and find_all_matches.                                       *)
(*                                                                         *)
(* A branch is a record [mapping, users]: mapping is the sequence of       *)
(* edges <<chunk, child branch>> in the order of the Vec, users the        *)
(* sequence of user ids in the order of the Vec.  A user (Arc<User>) is    *)
(* represented by its id, which User::new draws from a global counter and  *)
(* which is all the tree ever compares.                                    *)
(*                                                                         *)
(* write_branch holds two aliasing mutable references (unsafe_ref,         *)
(* node_opt_2).  Each is used only after the reference it aliases is dead, *)
(* and the whole call runs under the write guard of the RwLock, so the     *)
(* model takes the sequential reading of the loop.                         *)
(***************************************************************************)
EXTENDS Integers, Sequences, FiniteSets, TLC

\* ---------------------------------------------------------------- bounds
\* Bytes are 0..MaxByte (u8 in the source, 0..255).
MaxByte == 1
\* Longest phrase handed to add_item / remove_item.
MaxLen == 3
\* Longest text handed to find_all_matches.
MaxText == 3
\* Number of user records (ids 1..NumUsers).
NumUsers == 2
\* Number of add_item / remove_item calls in one behaviour.
MaxOps == 3

Bytes == 0..MaxByte
Users == 1..NumUsers

SeqsUpTo(n) == UNION {[1..k -> Bytes] : k \in 0..n}
Phrases == SeqsUpTo(MaxLen)
Texts == SeqsUpTo(MaxText)

\* ------------------------------------------------------- slices of bytes
\* <[u8]>::starts_with
starts_with(s, p) == Len(p) <= Len(s) /\ SubSeq(s, 1, Len(p)) = p

\* &s[n..]
SliceFrom(s, n) == SubSeq(s, n + 1, Len(s))

\* &s[..n]
SliceTo(s, n) == SubSeq(s, 1, n)

Min(S) == CHOOSE x \in S : \A y \in S : x <= y

\* BulkSearchBranch::default()
EmptyBranch == [mapping |-> <<>>, users |-> <<>>]

\* ------------------------------------------------------------ walk_branch
\* The filter closure of walk_branch: HashSet::insert returns true when the
\* id was not in the set yet.
was_uniq_always(consumed_users, id) == TRUE

was_uniq(consumed_users, id) == id \notin consumed_users

\* users.extend(branch.users.iter().filter(..).cloned()): the users of one
\* branch, in order, each kept when its id enters consumed_users.
RECURSIVE ExtendUsers(_, _, _, _)
ExtendUsers(branch_users, i, consumed_users, users) ==
    IF i > Len(branch_users)
    THEN [consumed_users |-> consumed_users, users |-> users]
    ELSE IF was_uniq(consumed_users, branch_users[i])
         THEN ExtendUsers(branch_users, i + 1,
                          consumed_users \cup {branch_users[i]},
                          Append(users, branch_users[i]))
         ELSE ExtendUsers(branch_users, i + 1, consumed_users, users)

\* The test of the scan of walk_branch: the remaining path starts with the
\* chunk of the node.
WalkChunkMatchesEitherWay(remaining_path, chunk) ==
    starts_with(remaining_path, chunk) \/ starts_with(chunk, remaining_path)

WalkChunkMatches(remaining_path, chunk) == starts_with(remaining_path, chunk)

RECURSIVE walk_branch(_, _, _, _)
walk_branch(branch, remaining_path, consumed_users, users) ==
    LET ext == ExtendUsers(branch.users, 1, consumed_users, users)
        hits == {i \in 1..Len(branch.mapping) :
                    WalkChunkMatches(remaining_path, branch.mapping[i][1])}
    IN  IF remaining_path = <<>> \/ hits = {}
        THEN ext
        ELSE LET node == branch.mapping[Min(hits)]
             IN  walk_branch(node[2],
                             SliceFrom(remaining_path, Len(node[1])),
                             ext.consumed_users, ext.users)

\* The loop of find_all_matches over the cursors i (1-based here).
RECURSIVE FindFrom(_, _, _, _, _)
FindFrom(first_byte_branches, text, i, consumed_users, users) ==
    IF i > Len(text)
    THEN users
    ELSE LET r == walk_branch(first_byte_branches[text[i]], SliceFrom(text, i),
                              consumed_users, users)
         IN  FindFrom(first_byte_branches, text, i + 1, r.consumed_users, r.users)

\* BulkSearchTree::find_all_matches: the Vec of users found, in order.
find_all_matches(first_byte_branches, text) ==
    FindFrom(first_byte_branches, text, 1, {}, <<>>)

\* ------------------------------------------------------------- split_node
split_node(node, split_at, user) ==
    LET junction_branch ==
            [mapping |-> << <<SliceFrom(node[1], split_at), node[2]>> >>,
             users   |-> <<user>>]
    IN  <<SliceTo(node[1], split_at), junction_branch>>

\* ----------------------------------------------------------- write_branch
\* The uniqueness test at the end of the path.
unique_always(branch_users, user) == TRUE

unique(branch_users, user) == \A i \in 1..Len(branch_users) : branch_users[i] # user

\* The two tests of the scan of write_branch on one node.
WriteDescends(chunk, remaining_path) ==
    Len(chunk) <= Len(remaining_path) /\ starts_with(remaining_path, chunk)

WriteSplits(chunk, remaining_path) ==
    Len(chunk) > Len(remaining_path) /\ starts_with(chunk, remaining_path)

\* write_branch.  Besides the new branch and the returned bool the result
\* records where the call ended: how ("terminal", "split" or "new"), the
\* edge indices descended (path) and the path remaining there (rest).
RECURSIVE write_branch(_, _, _)
write_branch(branch, remaining_path, user) ==
    IF remaining_path = <<>>
    THEN LET u == unique(branch.users, user)
         IN  [branch |-> IF u THEN [branch EXCEPT !.users = Append(@, user)]
                              ELSE branch,
              ret |-> u, how |-> "terminal", path |-> <<>>, rest |-> <<>>]
    ELSE LET hits == {i \in 1..Len(branch.mapping) :
                         \/ WriteDescends(branch.mapping[i][1], remaining_path)
                         \/ WriteSplits(branch.mapping[i][1], remaining_path)}
         IN  IF hits = {}
             THEN [branch |-> [branch EXCEPT !.mapping =
                                  Append(@, <<remaining_path,
                                              [mapping |-> <<>>, users |-> <<user>>]>>)],
                   ret |-> TRUE, how |-> "new", path |-> <<>>,
                   rest |-> remaining_path]
             ELSE LET i == Min(hits)
                      node == branch.mapping[i]
                  IN  IF WriteDescends(node[1], remaining_path)
                      THEN LET r == write_branch(node[2],
                                        SliceFrom(remaining_path, Len(node[1])),
                                        user)
                           IN  [r EXCEPT
                                  !.branch = [branch EXCEPT
                                                !.mapping[i] = <<node[1], r.branch>>],
                                  !.path = <<i>> \o r.path]
                      ELSE [branch |-> [branch EXCEPT !.mapping[i] =
                                           split_node(node, Len(remaining_path), user)],
                            ret |-> TRUE, how |-> "split", path |-> <<>>,
                            rest |-> remaining_path]

\* -------------------------------------------------------- find_mut_branch
\* find_mut_branch: the edge indices to the branch that matches EXACTLY the
\* remaining path (Some), or None.
RECURSIVE find_mut_branch(_, _)
find_mut_branch(branch, remaining_path) ==
    IF remaining_path = <<>>
    THEN [some |-> TRUE, path |-> <<>>]
    ELSE LET hits == {i \in 1..Len(branch.mapping) :
                         starts_with(remaining_path, branch.mapping[i][1])}
         IN  IF hits = {}
             THEN [some |-> FALSE, path |-> <<>>]
             ELSE LET i == Min(hits)
                      r == find_mut_branch(branch.mapping[i][2],
                               SliceFrom(remaining_path, Len(branch.mapping[i][1])))
                  IN  [r EXCEPT !.path = <<i>> \o r.path]

\* branch.users.retain(|u| u.id != user.id)
retain_all(branch_users, user) == branch_users

retain(branch_users, user) == SelectSeq(branch_users, LAMBDA u : u # user)

\* The branch reached from `branch` along the edge indices `path`.
RECURSIVE BranchAt(_, _)
BranchAt(branch, path) ==
    IF path = <<>> THEN branch
    ELSE BranchAt(branch.mapping[Head(path)][2], Tail(path))

\* The write through the &mut returned by find_mut_branch.
RECURSIVE RetainAt(_, _, _)
RetainAt(branch, path, user) ==
    IF path = <<>>
    THEN [branch EXCEPT !.users = retain(@, user)]
    ELSE [branch EXCEPT !.mapping[Head(path)] =
             <<@[1], RetainAt(@[2], Tail(path), user)>>]

\* ------------------------------------------------- BulkSearchTree methods
\* BulkSearchTree::new
NewTree == [b \in Bytes |-> EmptyBranch]

\* BulkSearchTree::add_item as a function of the root array.
add_item_returns_true(first_byte_branches, subtext, user) ==
    IF subtext = <<>>
    THEN [tree |-> first_byte_branches, ret |-> FALSE, how |-> "blank",
          path |-> <<>>, rest |-> <<>>]
    ELSE LET r == write_branch(first_byte_branches[subtext[1]],
                               SliceFrom(subtext, 1), user)
         IN  [tree |-> [first_byte_branches EXCEPT ![subtext[1]] = r.branch],
              ret |-> TRUE, how |-> r.how, path |-> r.path, rest |-> r.rest]

add_item(first_byte_branches, subtext, user) ==
    IF subtext = <<>>
    THEN [tree |-> first_byte_branches, ret |-> FALSE, how |-> "blank",
          path |-> <<>>, rest |-> <<>>]
    ELSE LET r == write_branch(first_byte_branches[subtext[1]],
                               SliceFrom(subtext, 1), user)
         IN  [tree |-> [first_byte_branches EXCEPT ![subtext[1]] = r.branch],
              ret |-> r.ret, how |-> r.how, path |-> r.path, rest |-> r.rest]

\* BulkSearchTree::remove_item as a function of the root array.
remove_item_blank_found(first_byte_branches, subtext, user) ==
    LET f == IF subtext = <<>> THEN [some |-> TRUE, path |-> <<>>]
             ELSE find_mut_branch(first_byte_branches[subtext[1]],
                                  SliceFrom(subtext, 1))
    IN  IF f.some
        THEN [tree |-> IF subtext = <<>> THEN first_byte_branches
                       ELSE [first_byte_branches EXCEPT ![subtext[1]] =
                                RetainAt(@, f.path, user)],
              ret |-> TRUE]
        ELSE [tree |-> first_byte_branches, ret |-> FALSE]

remove_item(first_byte_branches, subtext, user) ==
    IF subtext = <<>>
    THEN [tree |-> first_byte_branches, ret |-> FALSE]
    ELSE LET f == find_mut_branch(first_byte_branches[subtext[1]],
                                  SliceFrom(subtext, 1))
         IN  IF f.some
             THEN [tree |-> [first_byte_branches EXCEPT ![subtext[1]] =
                                RetainAt(@, f.path, user)],
                   ret |-> TRUE]
             ELSE [tree |-> first_byte_branches, ret |-> FALSE]

\* ------------------------------------------------------------------ state
VARIABLES
    first_byte,  \* BulkSearchTree.first_byte: the root array
    solo,        \* solo[u]: a second index that receives only the calls of user u
    registered,  \* the pairs <<phrase, user>> added and not removed since
    addOnly,     \* no remove_item call was made so far
    op,          \* the last call and what it returned
    prev,        \* the call before it
    nOps         \* number of calls made

\* The state of the tasks that call the index concurrently (SpecConc).
VARIABLES
    lock,        \* the RwLock around first_byte: [writer, readers]
    task,        \* task[t]: the call task t is in, and how far it got
    hole,        \* split_node has taken the node out of its slot and not put it back
    torn,        \* a query read the tree while a mutation was partly applied
    calls        \* number of calls made by the tasks

\* The state of the worker around the index (SpecSys).
VARIABLES
    db,          \* the users and phrases tables: db[key] = [did, phrases, present]
    recs,        \* the User records made so far; the id of a record is its
                 \* position (USER_ID_COUNTER + 1)
    dids,        \* the DID map: dids[did] = id of a record, or 0
    pending,     \* pending[id]: spawned inform_user tasks that await the response
    evicts,      \* evict_user calls under way, each [rec, stage]
    evicted,     \* the records for which an evict_user call has returned
    now,         \* the clock, in milliseconds
    last,        \* the last response handled by inform_user
    resp,        \* the last request handled by private_key_handler
    lastPost,    \* the last post handled by process
    cnt          \* numbers of requests, posts and clock ticks so far

idxVars == <<solo, registered, addOnly, op, prev, nOps>>
concVars == <<lock, task, hole, torn, calls>>
sysVars == <<db, recs, dids, pending, evicts, evicted, now, last, resp,
             lastPost, cnt>>

vars == <<first_byte, solo, registered, addOnly, op, prev, nOps,
          lock, task, hole, torn, calls,
          db, recs, dids, pending, evicts, evicted, now, last, resp,
          lastPost, cnt>>

NoOp == [kind |-> "none", subtext |-> <<>>, user |-> 0, ret |-> FALSE,
         how |-> "none", path |-> <<>>, rest |-> <<>>]

\* Number of tasks that call the index concurrently.
NumTasks == 2
\* Number of calls the tasks make in one behaviour of SpecConc.
MaxCalls == 3

Tasks == 1..NumTasks

\* A task that is in no call.
IdleTask == [pc |-> "idle", kind |-> "none", subtext |-> <<>>, user |-> 0,
             text |-> <<>>, cursor |-> 0, consumed_users |-> {}, users |-> <<>>,
             seen |-> {}]

\* No call of the index has been recorded.
NoCalls ==
    /\ solo = [u \in Users |-> NewTree]
    /\ registered = {}
    /\ addOnly = TRUE
    /\ op = NoOp
    /\ prev = NoOp
    /\ nOps = 0

InitIdx == first_byte = NewTree /\ NoCalls

InitConc ==
    /\ lock = [writer |-> 0, readers |-> {}]
    /\ task = [t \in Tasks |-> IdleTask]
    /\ hole = FALSE
    /\ torn = FALSE
    /\ calls = 0

\* ---------------------------------------------------- bounds of SpecSys
\* Rows of the users table (signing keys 1..NumKeys).
NumKeys == 1
\* DIDs that rows carry and posts mention (1..NumDids).
NumDids == 1
\* User records made in one behaviour.
MaxRecs == 2
\* Requests to the admin route in one behaviour.
MaxPuts == 2
\* Posts processed in one behaviour.
MaxPosts == 1
\* Mentions in one post.
MaxMentions == 2
\* Responses to deliveries handled in one behaviour.
MaxResponses == 2
\* Advances of the clock in one behaviour.
MaxTicks == 1

Keys == 1..NumKeys
Dids == 1..NumDids

\* The phrase lists of the rows: the one-byte phrases <<0>>, <<1>>, ... up to
\* some byte.
PhraseLists == {[i \in 1..n |-> <<i - 1>>] : n \in 1..(MaxByte + 1)}

\* The texts of the posts: at most one byte.
PostTexts == {x \in Texts : Len(x) <= 1}

\* The DIDs of the mention features of a post, in order.
MentionLists == UNION {[1..n -> Dids] : n \in 0..MaxMentions}

NoResponse == [kind |-> "none", rec |-> 0, outcome |-> 0, endpoint |-> "none",
               dns |-> "none", dt_start |-> 0, dt_now |-> 0, after_ok |-> FALSE,
               evict |-> FALSE]

NoRequest == [header |-> "none", key |-> 0, status |-> 0, loaded |-> FALSE]

NoPost == [text |-> <<>>, mentions |-> <<>>, matched |-> <<>>, looked |-> <<>>,
           spawned |-> <<>>]

\* The cases of the private_key column of a row: the hex of 32 bytes, a
\* string that hex::decode rejects, the hex of another number of bytes.
KeyHexes == {"ok", "not_hex", "short"}

\* The tables with a row for every key, every key the hex of 32 bytes.
Tables == [Keys -> [did : 0..NumDids, phrases : PhraseLists, present : {TRUE},
                    hex : {"ok"}]]

\* The tables with a row for every key and any private_key column.
StoredTables == [Keys -> [did : 0..NumDids, phrases : PhraseLists,
                          present : {TRUE}, hex : KeyHexes]]

\* Tables without rows.
NoRows == [k \in Keys |-> [did |-> 0, phrases |-> <<>>, present |-> FALSE,
                           hex |-> "ok"]]

\* main has made the tree and the DID map and init_data has found no row;
\* the clock shows some time after the epoch.
InitSys ==
    /\ recs = <<>>
    /\ dids = [d \in Dids |-> 0]
    /\ pending = [r \in 1..MaxRecs |-> 0]
    /\ evicts = <<>>
    /\ evicted = {}
    /\ now = 1
    /\ last = NoResponse
    /\ resp = NoRequest
    /\ lastPost = NoPost
    /\ cnt = [puts |-> 0, posts |-> 0, resps |-> 0, ticks |-> 0, boot |-> "done"]

Init == InitIdx /\ InitConc /\ InitSys /\ db = NoRows

AddItem(subtext, user) ==
    /\ nOps < MaxOps
    /\ LET r == add_item(first_byte, subtext, user)
       IN  /\ first_byte' = r.tree
           /\ op' = [kind |-> "add", subtext |-> subtext, user |-> user,
                     ret |-> r.ret, how |-> r.how, path |-> r.path, rest |-> r.rest]
    /\ solo' = [solo EXCEPT ![user] = add_item(@, subtext, user).tree]
    /\ registered' = IF subtext = <<>> THEN registered
                     ELSE registered \cup {<<subtext, user>>}
    /\ prev' = op
    /\ nOps' = nOps + 1
    /\ UNCHANGED addOnly
    /\ UNCHANGED <<concVars, sysVars>>

RemoveItem(subtext, user) ==
    /\ nOps < MaxOps
    /\ LET r == remove_item(first_byte, subtext, user)
       IN  /\ first_byte' = r.tree
           /\ op' = [kind |-> "remove", subtext |-> subtext, user |-> user,
                     ret |-> r.ret, how |-> "none", path |-> <<>>, rest |-> <<>>]
    /\ solo' = [solo EXCEPT ![user] = remove_item(@, subtext, user).tree]
    /\ registered' = registered \ {<<subtext, user>>}
    /\ addOnly' = FALSE
    /\ prev' = op
    /\ nOps' = nOps + 1
    /\ UNCHANGED <<concVars, sysVars>>

Next ==
    \/ \E subtext \in Phrases, user \in Users : AddItem(subtext, user)
    \/ \E subtext \in Phrases, user \in Users : RemoveItem(subtext, user)

Spec == Init /\ [][Next]_vars

\* ------------------------------------------------ concurrent calls (SpecConc)
\* Tasks of the tokio runtime call the three methods of one BulkSearchTree.
\* A step of a task is what it does between two points where another task
\* can run or, inside a guard, one access to the tree: the split of an edge
\* is the take() of the slot and, one step later, the replace().

\* The phrases and texts of the concurrent calls: runs of the byte 0, which
\* take write_branch through its three endings.
ConcPhrases == {p \in Phrases : p # <<>> /\ \A i \in 1..Len(p) : p[i] = 0}
ConcTexts == {x \in Texts : x # <<>> /\ \A i \in 1..Len(x) : x[i] = 0}

\* RwLock::read: granted while no writer holds the lock.
CanReadAlways(l) == TRUE

CanRead(l) == l.writer = 0

\* RwLock::write: granted while nobody holds the lock.
CanWriteBesideReaders(l) == l.writer = 0

CanWrite(l) == l.writer = 0 /\ l.readers = {}

\* The tree enters the view of every query that was called and has not
\* returned yet.
Observe(tk, tree) ==
    [t \in Tasks |-> IF tk[t].kind = "find" /\ tk[t].pc # "idle"
                     THEN [tk[t] EXCEPT !.seen = @ \cup {tree}]
                     ELSE tk[t]]

\* A task calls add_item or remove_item with a phrase that is not empty.
CallWrite(t, kind, subtext, user) ==
    /\ calls < MaxCalls
    /\ task[t].pc = "idle"
    /\ task' = [task EXCEPT ![t] = [IdleTask EXCEPT !.pc = "wait", !.kind = kind,
                                       !.subtext = subtext, !.user = user]]
    /\ calls' = calls + 1
    /\ UNCHANGED <<first_byte, lock, hole, torn, idxVars, sysVars>>

\* A task calls find_all_matches.
CallFind(t, text) ==
    /\ calls < MaxCalls
    /\ task[t].pc = "idle"
    /\ task' = [task EXCEPT ![t] = [IdleTask EXCEPT !.pc = "wait", !.kind = "find",
                                       !.text = text, !.cursor = 1,
                                       !.seen = {first_byte}]]
    /\ calls' = calls + 1
    /\ UNCHANGED <<first_byte, lock, hole, torn, idxVars, sysVars>>

\* self.first_byte.read().await
AcquireRead(t) ==
    /\ task[t].pc = "wait" /\ task[t].kind = "find"
    /\ CanRead(lock)
    /\ lock' = [lock EXCEPT !.readers = @ \cup {t}]
    /\ task' = [task EXCEPT ![t].pc = "hold"]
    /\ UNCHANGED <<first_byte, hole, torn, calls, idxVars, sysVars>>

\* One round of the loop of find_all_matches: the walk from one cursor.
ReadCursor(t) ==
    /\ task[t].pc = "hold" /\ task[t].kind = "find"
    /\ task[t].cursor <= Len(task[t].text)
    /\ LET c == task[t].cursor
           r == walk_branch(first_byte[task[t].text[c]], SliceFrom(task[t].text, c),
                            task[t].consumed_users, task[t].users)
       IN  task' = [task EXCEPT ![t].cursor = c + 1,
                                ![t].consumed_users = r.consumed_users,
                                ![t].users = r.users]
    /\ torn' = (torn \/ hole)
    /\ UNCHANGED <<first_byte, lock, hole, calls, idxVars, sysVars>>

\* find_all_matches returns users; the read guard is dropped.
ReadRelease(t) ==
    /\ task[t].pc = "hold" /\ task[t].kind = "find"
    /\ task[t].cursor > Len(task[t].text)
    /\ lock' = [lock EXCEPT !.readers = @ \ {t}]
    /\ task' = [task EXCEPT ![t].pc = "idle"]
    /\ UNCHANGED <<first_byte, hole, torn, calls, idxVars, sysVars>>

\* self.first_byte.write().await
AcquireWrite(t) ==
    /\ task[t].pc = "wait" /\ task[t].kind \in {"add", "remove"}
    /\ CanWrite(lock)
    /\ lock' = [lock EXCEPT !.writer = t]
    /\ task' = [task EXCEPT ![t].pc = "hold"]
    /\ UNCHANGED <<first_byte, hole, torn, calls, idxVars, sysVars>>

\* write_branch reaches the edge to split: split_node takes the node out.
SplitTake(t) ==
    /\ task[t].pc = "hold" /\ task[t].kind = "add"
    /\ add_item(first_byte, task[t].subtext, task[t].user).how = "split"
    /\ hole' = TRUE
    /\ task' = [task EXCEPT ![t].pc = "mid"]
    /\ UNCHANGED <<first_byte, lock, torn, calls, idxVars, sysVars>>

\* split_node puts the junction into the slot.
SplitReplace(t) ==
    /\ task[t].pc = "mid"
    /\ first_byte' = add_item(first_byte, task[t].subtext, task[t].user).tree
    /\ hole' = FALSE
    /\ task' = Observe([task EXCEPT ![t].pc = "applied"], first_byte')
    /\ UNCHANGED <<lock, torn, calls, idxVars, sysVars>>

\* The one write of every other call: the push of a user or of an edge by
\* write_branch, or the retain of remove_item.
WriteApply(t) ==
    /\ task[t].pc = "hold" /\ task[t].kind \in {"add", "remove"}
    /\ IF task[t].kind = "add"
       THEN LET r == add_item(first_byte, task[t].subtext, task[t].user)
            IN  r.how # "split" /\ first_byte' = r.tree
       ELSE first_byte' = remove_item(first_byte, task[t].subtext, task[t].user).tree
    /\ task' = Observe([task EXCEPT ![t].pc = "applied"], first_byte')
    /\ UNCHANGED <<lock, hole, torn, calls, idxVars, sysVars>>

\* add_item / remove_item return; the write guard is dropped.
WriteRelease(t) ==
    /\ task[t].pc = "applied"
    /\ lock' = [lock EXCEPT !.writer = 0]
    /\ task' = [task EXCEPT ![t].pc = "idle"]
    /\ UNCHANGED <<first_byte, hole, torn, calls, idxVars, sysVars>>

NextConc ==
    \/ \E t \in Tasks, kind \in {"add", "remove"}, subtext \in ConcPhrases,
          user \in Users : CallWrite(t, kind, subtext, user)
    \/ \E t \in Tasks, text \in ConcTexts : CallFind(t, text)
    \/ \E t \in Tasks : AcquireRead(t)
    \/ \E t \in Tasks : ReadCursor(t)
    \/ \E t \in Tasks : ReadRelease(t)
    \/ \E t \in Tasks : AcquireWrite(t)
    \/ \E t \in Tasks : SplitTake(t)
    \/ \E t \in Tasks : SplitReplace(t)
    \/ \E t \in Tasks : WriteApply(t)
    \/ \E t \in Tasks : WriteRelease(t)

SpecConc == Init /\ [][NextConc]_vars

\* ------------------------------------------------- the worker (SpecSys)
\* The program around the index: the admin route (http.rs), the loading of
\* a row (postgres.rs), the processing of a post, the handling of the
\* response to a delivery and the eviction (main.rs). Every await of the
\* code that lets another task run separates two actions; the calls of the
\* index are atomic steps on first_byte.

\* The cases of the Authorization header of a request: absent, the bytes of
\* HTTP_KEY, other visible ASCII bytes, bytes that are not visible ASCII.
Headers == {"absent", "secret", "other", "opaque"}

\* HeaderValue::to_str: Ok only for visible ASCII.
to_str_is_ok(auth) == auth # "opaque"

\* crypto::util::fixed_time_eq(auth, http_key)
fixed_time_eq(auth) == auth = "secret"

\* The status codes of viz that the handler answers; 0: the handler
\* panicked and answered nothing.
BAD_REQUEST == 400
UNAUTHORIZED == 401
NO_CONTENT == 204

\* User::new and the phrases query of load_user: the record of a row. The
\* load starts at the DID map when the row has a DID, else at phrase 1.
NewUser(key) ==
    [key |-> key, did |-> db[key].did, phrases |-> db[key].phrases,
     hex |-> db[key].hex, downtime |-> 0, after_ok |-> FALSE,
     load |-> IF db[key].did # 0 THEN 0 ELSE 1]

\* hex::decode(private_key) of User::new is Ok.
hex_decode_is_ok(hex) == hex # "not_hex"

\* private_key_handler, up to the first await of load_user. The server
\* runs once init_data has returned.
AdminPut(key, auth) ==
    /\ cnt.boot = "done"
    /\ cnt.puts < MaxPuts
    /\ cnt' = [cnt EXCEPT !.puts = @ + 1]
    /\ IF auth = "absent"
         THEN /\ resp' = [header |-> auth, key |-> key, status |-> BAD_REQUEST,
                          loaded |-> FALSE]
              /\ recs' = recs
       ELSE IF ~to_str_is_ok(auth)
         THEN /\ resp' = [header |-> auth, key |-> key, status |-> 0,
                          loaded |-> FALSE]
              /\ recs' = recs
       ELSE IF ~fixed_time_eq(auth)
         THEN /\ resp' = [header |-> auth, key |-> key, status |-> UNAUTHORIZED,
                          loaded |-> FALSE]
              /\ recs' = recs
       ELSE IF ~db[key].present
         THEN /\ resp' = [header |-> auth, key |-> key, status |-> NO_CONTENT,
                          loaded |-> FALSE]
              /\ recs' = recs
       ELSE IF ~hex_decode_is_ok(db[key].hex)
         THEN /\ resp' = [header |-> auth, key |-> key, status |-> 0,
                          loaded |-> FALSE]
              /\ recs' = recs
       ELSE /\ Len(recs) < MaxRecs
            /\ resp' = [header |-> auth, key |-> key, status |-> NO_CONTENT,
                        loaded |-> TRUE]
            /\ recs' = Append(recs, NewUser(key))
    /\ UNCHANGED <<first_byte, idxVars, concVars, db, dids, pending, evicts,
                   evicted, now, last, lastPost>>

\* load_user: dids.write().await.insert(did, user_arc)
LoadDid(id) ==
    /\ id \in 1..Len(recs)
    /\ recs[id].load = 0
    /\ dids' = [dids EXCEPT ![recs[id].did] = id]
    /\ recs' = [recs EXCEPT ![id].load = 1]
    /\ UNCHANGED <<first_byte, idxVars, concVars, db, pending, evicts, evicted,
                   now, last, resp, lastPost, cnt>>

\* load_user: one tree.add_item(phrase, user_arc).await of the loop.
LoadPhrase(id) ==
    /\ id \in 1..Len(recs)
    /\ recs[id].load \in 1..Len(recs[id].phrases)
    /\ first_byte' = add_item(first_byte, recs[id].phrases[recs[id].load], id).tree
    /\ recs' = [recs EXCEPT ![id].load = @ + 1]
    /\ UNCHANGED <<idxVars, concVars, db, dids, pending, evicts, evicted, now,
                   last, resp, lastPost, cnt>>

\* The ids of a list of records.
UsedIds(users) == {users[i] : i \in 1..Len(users)}

\* !used_ids.contains(&user.id), taken as true for every id.
NotInformedAlways(used_ids, id) == TRUE

\* !used_ids.contains(&user.id)
NotInformed(used_ids, id) == id \notin used_ids

\* lock.get(mention.did) of every mention of the post, in order; 0 is None.
Looked(mentions) == [i \in 1..Len(mentions) |-> dids[mentions[i]]]

\* The mention pass: the records it spawns a task for, in order.
MentionSpawns(looked, used_ids) ==
    SelectSeq(looked, LAMBDA id : id # 0 /\ NotInformed(used_ids, id))

\* process, for a message that holds one post. The firehose is read once
\* init_data has returned.
Process(text, mentions) ==
    /\ cnt.boot = "done"
    /\ cnt.posts < MaxPosts
    /\ cnt' = [cnt EXCEPT !.posts = @ + 1]
    /\ LET search_match_users == find_all_matches(first_byte, text)
           used_ids == UsedIds(search_match_users)
           looked == Looked(mentions)
           spawned == search_match_users \o MentionSpawns(looked, used_ids)
       IN  /\ lastPost' = [text |-> text, mentions |-> mentions,
                           matched |-> search_match_users, looked |-> looked,
                           spawned |-> spawned]
           /\ pending' = [r \in 1..MaxRecs |->
                            pending[r] + Len(SelectSeq(spawned, LAMBDA id : id = r))]
    /\ UNCHANGED <<first_byte, idxVars, concVars, db, recs, dids, evicts, evicted,
                   now, last, resp>>

\* The status codes of the responses.
Statuses == {200, 403, 429, 500}

\* StatusCode::is_success
is_success(status) == status >= 200 /\ status < 300

\* 2 * 60 * 60 * 1000
TwoHoursMs == 2 * 60 * 60 * 1000

\* dt_now - dt_start >= 2 hours
DownTooLongOrJust(dt_now, dt_start) == dt_now - dt_start >= TwoHoursMs

\* dt_now - dt_start > 2 * 60 * 60 * 1000
DownTooLong(dt_now, dt_start) == dt_now - dt_start > TwoHoursMs

\* The cases of user.endpoint: not a URL, a URL without a host, a URL whose
\* host is an IPv4 address, an IPv6 address, a domain name.
Endpoints == {"bad_url", "no_host", "ipv4", "ipv6", "domain"}

\* url.host_str(): the host as the URL serialises it, an IPv6 address in
\* square brackets.
host_str(endpoint) ==
    CASE endpoint = "ipv4" -> "ipv4"
      [] endpoint = "ipv6" -> "bracketed_ipv6"
      [] endpoint = "domain" -> "name"
      [] OTHER -> "None"

\* hostname.parse::<IpAddr>().is_ok(): an address without brackets.
ParsesAsIpAddr(hostname) == hostname \in {"ipv4", "ipv6"}

\* server_conn_failed looks the host up.
LooksUp(endpoint) ==
    /\ endpoint \notin {"bad_url", "no_host"}
    /\ ~ParsesAsIpAddr(host_str(endpoint))

\* The outcomes of tokio::net::lookup_host; "none": not called.
Lookups(endpoint) == IF LooksUp(endpoint) THEN {"err", "empty", "some"} ELSE {"none"}

\* server_conn_failed: does it call evict_user? The unwrap of line 55
\* panics for a URL without a host.
server_conn_failed(endpoint, dns) ==
    IF endpoint = "bad_url" THEN TRUE
    ELSE IF endpoint = "no_host" THEN FALSE
    ELSE IF ParsesAsIpAddr(host_str(endpoint)) THEN FALSE
    ELSE dns \in {"err", "empty"}

\* The start of evict_user: at the DID map when the record has a DID, else
\* at phrase 1.
StartEvict(id) == [rec |-> id, stage |-> IF recs[id].did # 0 THEN 0 ELSE 1]

\* private_key.as_slice().try_into() to &[u8; 32] is Ok.
key_is_32_bytes(hex) == hex = "ok"

\* inform_user, the match on the result of send(): a response with a status.
Respond(id, status) ==
    /\ id \in 1..Len(recs)
    /\ pending[id] > 0
    /\ key_is_32_bytes(recs[id].hex)
    /\ cnt.resps < MaxResponses
    /\ cnt' = [cnt EXCEPT !.resps = @ + 1]
    /\ pending' = [pending EXCEPT ![id] = @ - 1]
    /\ LET dt_start == recs[id].downtime
           evict == IF is_success(status) THEN FALSE
                    ELSE IF status = 429 \/ status = 403 THEN TRUE
                    ELSE IF dt_start = 0 THEN FALSE
                    ELSE DownTooLong(now, dt_start)
           downtime == IF is_success(status) THEN 0
                       ELSE IF status = 429 \/ status = 403 THEN dt_start
                       ELSE IF dt_start = 0 THEN now
                       ELSE dt_start
       IN  /\ recs' = [recs EXCEPT ![id].downtime = downtime,
                                   ![id].after_ok = is_success(status)]
           /\ evicts' = IF evict THEN Append(evicts, StartEvict(id)) ELSE evicts
           /\ last' = [kind |-> "status", rec |-> id, outcome |-> status,
                       endpoint |-> "none", dns |-> "none", dt_start |-> dt_start,
                       dt_now |-> now, after_ok |-> recs[id].after_ok,
                       evict |-> evict]
    /\ UNCHANGED <<first_byte, idxVars, concVars, db, dids, evicted, now, resp,
                   lastPost>>

\* inform_user, the match on the result of send(): Err, server_conn_failed.
\* The endpoint of the row is read here for the first time.
ConnFailed(id, endpoint, dns) ==
    /\ id \in 1..Len(recs)
    /\ pending[id] > 0
    /\ key_is_32_bytes(recs[id].hex)
    /\ dns \in Lookups(endpoint)
    /\ cnt.resps < MaxResponses
    /\ cnt' = [cnt EXCEPT !.resps = @ + 1]
    /\ pending' = [pending EXCEPT ![id] = @ - 1]
    /\ LET evict == server_conn_failed(endpoint, dns)
       IN  /\ evicts' = IF evict THEN Append(evicts, StartEvict(id)) ELSE evicts
           /\ last' = [kind |-> "err", rec |-> id, outcome |-> 0,
                       endpoint |-> endpoint, dns |-> dns,
                       dt_start |-> recs[id].downtime, dt_now |-> now,
                       after_ok |-> recs[id].after_ok, evict |-> evict]
    /\ UNCHANGED <<first_byte, idxVars, concVars, db, recs, dids, evicted, now,
                   resp, lastPost>>

\* A sequence without its i-th element.
Without(seq, i) == SubSeq(seq, 1, i - 1) \o SubSeq(seq, i + 1, Len(seq))

\* evict_user: dids.write().await.remove(did)
EvictDid(i) ==
    /\ i \in 1..Len(evicts)
    /\ evicts[i].stage = 0
    /\ dids' = [dids EXCEPT ![recs[evicts[i].rec].did] = 0]
    /\ evicts' = [evicts EXCEPT ![i].stage = 1]
    /\ UNCHANGED <<first_byte, idxVars, concVars, db, recs, pending, evicted,
                   now, last, resp, lastPost, cnt>>

\* evict_user: one tree.remove_item(phrase, user).await of the loop.
EvictPhrase(i) ==
    /\ i \in 1..Len(evicts)
    /\ evicts[i].stage \in 1..Len(recs[evicts[i].rec].phrases)
    /\ first_byte' = remove_item(first_byte,
                         recs[evicts[i].rec].phrases[evicts[i].stage],
                         evicts[i].rec).tree
    /\ evicts' = [evicts EXCEPT ![i].stage = @ + 1]
    /\ UNCHANGED <<idxVars, concVars, db, recs, dids, pending, evicted, now,
                   last, resp, lastPost, cnt>>

\* evict_user: delete_user(pg_pool, key).await, and the return.
EvictDelete(i) ==
    /\ i \in 1..Len(evicts)
    /\ evicts[i].stage = Len(recs[evicts[i].rec].phrases) + 1
    /\ db' = [db EXCEPT ![recs[evicts[i].rec].key].present = FALSE]
    /\ evicted' = evicted \cup {evicts[i].rec}
    /\ evicts' = Without(evicts, i)
    /\ UNCHANGED <<first_byte, idxVars, concVars, recs, dids, pending, now, last,
                   resp, lastPost, cnt>>

\* Time passes: two hours, or a millisecond more.
Tick(d) ==
    /\ cnt.ticks < MaxTicks
    /\ cnt' = [cnt EXCEPT !.ticks = @ + 1]
    /\ now' = now + d
    /\ UNCHANGED <<first_byte, idxVars, concVars, db, recs, dids, pending, evicts,
                   evicted, last, resp, lastPost>>

\* The loading, the posts, the responses with a status and the evictions.
NextSys ==
    \/ \E key \in Keys, auth \in Headers : AdminPut(key, auth)
    \/ \E id \in 1..MaxRecs : LoadDid(id)
    \/ \E id \in 1..MaxRecs : LoadPhrase(id)
    \/ \E text \in PostTexts, mentions \in MentionLists : Process(text, mentions)
    \/ \E id \in 1..MaxRecs, status \in Statuses : Respond(id, status)
    \/ \E i \in 1..MaxResponses : EvictDid(i)
    \/ \E i \in 1..MaxResponses : EvictPhrase(i)
    \/ \E i \in 1..MaxResponses : EvictDelete(i)

\* The worker starts on any of the tables.
InitWorker == InitIdx /\ InitConc /\ InitSys /\ db \in Tables

SpecSys == InitWorker /\ [][NextSys]_vars

\* ------------------------------------------- the deliveries (SpecDeliver)
\* The tree after load_user has added the phrases from the i-th on.
RECURSIVE AddAll(_, _, _, _)
AddAll(tree, phrases, i, id) ==
    IF i > Len(phrases) THEN tree
    ELSE AddAll(add_item(tree, phrases[i], id).tree, phrases, i + 1, id)

\* The worker after the row of key 1 has been loaded as record 1 and posts
\* have spawned MaxResponses deliveries to it that await their responses.
InitDeliver ==
    /\ NoCalls /\ InitConc
    /\ db \in Tables
    /\ recs = <<[NewUser(1) EXCEPT !.load = Len(db[1].phrases) + 1]>>
    /\ dids = [d \in Dids |-> IF db[1].did = d THEN 1 ELSE 0]
    /\ first_byte = AddAll(NewTree, db[1].phrases, 1, 1)
    /\ pending = [r \in 1..MaxRecs |-> IF r = 1 THEN MaxResponses ELSE 0]
    /\ evicts = <<>>
    /\ evicted = {}
    /\ now = 1
    /\ last = NoResponse
    /\ resp = NoRequest
    /\ lastPost = NoPost
    /\ cnt = [puts |-> 0, posts |-> 0, resps |-> 0, ticks |-> 0, boot |-> "done"]

\* The responses to the deliveries, the clock and the evictions.
NextDeliver ==
    \/ \E id \in 1..MaxRecs, status \in Statuses : Respond(id, status)
    \/ \E id \in 1..MaxRecs, endpoint \in Endpoints, dns \in {"none", "err", "empty", "some"} :
            ConnFailed(id, endpoint, dns)
    \/ \E i \in 1..MaxResponses : EvictDid(i)
    \/ \E i \in 1..MaxResponses : EvictPhrase(i)
    \/ \E i \in 1..MaxResponses : EvictDelete(i)
    \/ \E d \in {TwoHoursMs, TwoHoursMs + 1} : Tick(d)

SpecDeliver == InitDeliver /\ [][NextDeliver]_vars

\* ------------------------------------------------- the start (SpecBoot)
\* The worker from its start on tables that hold rows: main awaits
\* init_data before it starts the HTTP server and reads the firehose, so
\* the loading of all rows is one step that no other task interleaves.

\* init_data: the rows from key k on, in the order of the keys. st holds
\* the records, the DID map and the tree so far. The unwrap of User::new
\* panics in main for a key that hex::decode rejects, which ends the process.
RECURSIVE init_data(_, _)
init_data(k, st) ==
    IF k > NumKeys THEN [st EXCEPT !.boot = "done"]
    ELSE IF ~db[k].present THEN init_data(k + 1, st)
    ELSE IF ~hex_decode_is_ok(db[k].hex) THEN [st EXCEPT !.boot = "panic"]
    ELSE LET id == Len(st.recs) + 1
             user == [NewUser(k) EXCEPT !.load = Len(db[k].phrases) + 1]
         IN  init_data(k + 1,
                 [recs |-> Append(st.recs, user),
                  dids |-> IF user.did # 0 THEN [st.dids EXCEPT ![user.did] = id]
                           ELSE st.dids,
                  tree |-> AddAll(st.tree, user.phrases, 1, id),
                  boot |-> st.boot])

\* main: init_data(pg_pool, tree, dids).await
InitData ==
    /\ cnt.boot = "todo"
    /\ LET st == init_data(1, [recs |-> recs, dids |-> dids, tree |-> first_byte,
                               boot |-> cnt.boot])
       IN  /\ recs' = st.recs
           /\ dids' = st.dids
           /\ first_byte' = st.tree
           /\ cnt' = [cnt EXCEPT !.boot = st.boot]
    /\ UNCHANGED <<idxVars, concVars, db, pending, evicts, evicted, now, last,
                   resp, lastPost>>

\* inform_user: the unwrap of line 83 panics in the spawned task for a key
\* that is not 32 bytes long; nothing is sent.
InformPanic(id) ==
    /\ id \in 1..Len(recs)
    /\ pending[id] > 0
    /\ ~key_is_32_bytes(recs[id].hex)
    /\ pending' = [pending EXCEPT ![id] = @ - 1]
    /\ UNCHANGED <<first_byte, idxVars, concVars, db, recs, dids, evicts, evicted,
                   now, last, resp, lastPost, cnt>>

\* main has made the tree and the DID map and calls init_data next.
InitBoot ==
    /\ InitIdx /\ InitConc
    /\ db \in StoredTables
    /\ recs = <<>>
    /\ dids = [d \in Dids |-> 0]
    /\ pending = [r \in 1..MaxRecs |-> 0]
    /\ evicts = <<>>
    /\ evicted = {}
    /\ now = 1
    /\ last = NoResponse
    /\ resp = NoRequest
    /\ lastPost = NoPost
    /\ cnt = [puts |-> 0, posts |-> 0, resps |-> 0, ticks |-> 0, boot |-> "todo"]

\* The start, then the loading, the posts, the responses and the evictions.
NextBoot ==
    \/ InitData
    \/ \E key \in Keys, auth \in Headers : AdminPut(key, auth)
    \/ \E id \in 1..MaxRecs : LoadDid(id)
    \/ \E id \in 1..MaxRecs : LoadPhrase(id)
    \/ \E text \in PostTexts, mentions \in MentionLists : Process(text, mentions)
    \/ \E id \in 1..MaxRecs, status \in Statuses : Respond(id, status)
    \/ \E id \in 1..MaxRecs : InformPanic(id)
    \/ \E i \in 1..MaxResponses : EvictDid(i)
    \/ \E i \in 1..MaxResponses : EvictPhrase(i)
    \/ \E i \in 1..MaxResponses : EvictDelete(i)

SpecBoot == InitBoot /\ [][NextBoot]_vars

\* ------------------------------------------------- notions of the claims
\* phrase occurs in text as a contiguous run of bytes.
Occurs(phrase, text) ==
    \E i \in 0..(Len(text) - Len(phrase)) :
        SubSeq(text, i + 1, i + Len(phrase)) = phrase

Range(s) == {s[i] : i \in 1..Len(s)}

\* The set of users find_all_matches returns for text.
Found(tree, text) == Range(find_all_matches(tree, text))

\* user is reported for every text in which phrase occurs.
Matches(tree, phrase, user) ==
    \A text \in Texts : Occurs(phrase, text) => user \in Found(tree, text)

\* The phrases user has registered.
PhrasesOf(user) == {pr[1] : pr \in {q \in registered : q[2] = user}}

\* Length of the longest common prefix of two byte strings.
CommonPrefixLen(a, b) ==
    LET m == IF Len(a) <= Len(b) THEN Len(a) ELSE Len(b)
        same == {k \in 0..m : SliceTo(a, k) = SliceTo(b, k)}
    IN  CHOOSE k \in same : \A j \in same : j <= k

\* No two edges of the branch, nor of any branch below it, share a
\* non-empty common prefix.
RECURSIVE PatriciaBranch(_)
PatriciaBranch(branch) ==
    /\ \A i, j \in 1..Len(branch.mapping) :
          i # j => CommonPrefixLen(branch.mapping[i][1], branch.mapping[j][1]) = 0
    /\ \A i \in 1..Len(branch.mapping) : PatriciaBranch(branch.mapping[i][2])

\* ----------------------------------------------------------------- claims

\* C1: substring completeness.  In every reachable state, for every pair
\* <<phrase, user>> added and not removed since and every text in which the
\* phrase occurs, find_all_matches(text) contains the user.
C1_Completeness ==
    \A pr \in registered : Matches(first_byte, pr[1], pr[2])

\* C2: substring soundness.  In every reachable state and for every text,
\* each user find_all_matches returns has a phrase, added and not removed
\* since, that occurs in the text.
C2_Soundness ==
    \A text \in Texts : \A user \in Found(first_byte, text) :
        \E phrase \in PhrasesOf(user) : Occurs(phrase, text)

\* A query returns one user while the other user, who has a phrase in the
\* index, is left out because none of its phrases occurs in the text.
C2_Witness ==
    \E text \in Texts, u, v \in Users :
        /\ u # v
        /\ Found(first_byte, text) = {u}
        /\ PhrasesOf(v) # {}
        /\ \A phrase \in PhrasesOf(v) : ~Occurs(phrase, text)

\* C3: deduplicated reporting.  In every reachable state and for every text
\* the sequence find_all_matches returns holds no user id twice.
C3_Dedup ==
    \A text \in Texts :
        LET r == find_all_matches(first_byte, text)
        IN  \A i, j \in 1..Len(r) : i # j => r[i] # r[j]

\* A user is returned for a text in which its phrases occur at two places
\* (two phrases, or one phrase at two positions).
C3_Witness ==
    \E text \in Texts, user \in Users :
        /\ user \in Found(first_byte, text)
        /\ Cardinality({x \in PhrasesOf(user) \X (0..Len(text)) :
              /\ x[2] + Len(x[1]) <= Len(text)
              /\ SubSeq(text, x[2] + 1, x[2] + Len(x[1])) = x[1]}) >= 2

\* C4: Patricia invariant.  In every reachable state no two edge labels of
\* any branch, root branches included, share a non-empty common prefix.
C4_Patricia ==
    \A b \in Bytes : PatriciaBranch(first_byte[b])

\* C5: split preservation.  When an add_item call splits an edge, every
\* pair registered before the call that matched before it still matches
\* after it.
C5_SplitPreserves ==
    [][(op'.kind = "add" /\ op'.how = "split") =>
          \A pr \in registered :
              Matches(first_byte, pr[1], pr[2]) => Matches(first_byte', pr[1], pr[2])]_vars

\* C6: partial-common-prefix insertion.  When write_branch ends at a branch
\* where an edge label L and the remaining path R share a non-empty common
\* prefix shorter than both, the call returns true and afterwards that edge
\* carries the common prefix and leads to a junction with exactly two
\* children: the former child under the rest of L, and a new child under
\* the rest of R whose users are the added user alone.
C6_PartialPrefixSplit ==
    [][(op'.kind = "add" /\ op'.how = "new") =>
          LET b == op'.subtext[1]
              site == BranchAt(first_byte[b], op'.path)
              after == BranchAt(first_byte'[b], op'.path)
              partial == {i \in 1..Len(site.mapping) :
                             CommonPrefixLen(site.mapping[i][1], op'.rest) > 0}
          IN  partial # {} =>
                 /\ op'.ret
                 /\ \E i \in partial :
                       LET L == site.mapping[i][1]
                           k == CommonPrefixLen(L, op'.rest)
                           junction == after.mapping[i][2]
                       IN  /\ after.mapping[i][1] = SliceTo(L, k)
                           /\ Len(junction.mapping) = 2
                           /\ Range(junction.mapping) =
                                 { <<SliceFrom(L, k), site.mapping[i][2]>>,
                                   <<SliceFrom(op'.rest, k),
                                     [mapping |-> <<>>, users |-> <<op'.user>>]>> }]_vars

\* C7: independence.  After add_item calls only, by two users whose phrase
\* sets are disjoint, find_all_matches on the shared index returns for
\* every text the union of what the two single-user indexes return.
C7_Independence ==
    \A u, v \in Users :
        ( /\ u # v
          /\ addOnly
          /\ \A pr \in registered : pr[2] \in {u, v}
          /\ PhrasesOf(u) # {} /\ PhrasesOf(v) # {}
          /\ PhrasesOf(u) \cap PhrasesOf(v) = {} )
        => \A text \in Texts :
              Found(first_byte, text) = Found(solo[u], text) \cup Found(solo[v], text)

\* C8: remove after add.  On the empty index, add_item(P, S) with P not
\* empty followed by remove_item(P, S): the remove returns true and no text
\* makes find_all_matches report S afterwards.
C8_AddThenRemove ==
    nOps = 2 /\ prev.kind = "add" /\ op.kind = "remove"
    /\ prev.subtext # <<>> /\ op.subtext = prev.subtext /\ op.user = prev.user

C8_RemoveAfterAdd ==
    C8_AddThenRemove =>
        /\ op.ret
        /\ \A text \in Texts : op.user \notin Found(first_byte, text)

\* The pair was added to the empty index (the add returned true) and the
\* remove has been performed.
C8_Witness == C8_AddThenRemove /\ prev.ret /\ Len(op.subtext) = MaxLen

\* C9: insert idempotence.  In any reachable state, an add_item(P, S) that
\* directly follows an add_item(P, S) returns false and leaves the whole
\* root array, every edge, label and user list, as it was.
C9_Idempotent ==
    [][(op.kind = "add" /\ op'.kind = "add" /\ nOps' = nOps + 1
        /\ op'.subtext = op.subtext /\ op'.user = op.user)
       => (~op'.ret /\ first_byte' = first_byte)]_vars

\* The second of two equal calls has been made, after a first one that
\* split an edge of a tree that already held a phrase.
C9_Witness ==
    /\ nOps = 3 /\ op.kind = "add" /\ prev.kind = "add"
    /\ op.subtext = prev.subtext /\ op.user = prev.user
    /\ prev.how = "split" /\ ~op.ret

\* C10: in every reachable state, for every pair <<P, S>> added and not
\* removed since, a further add_item(P, S) returns false and leaves the
\* tree as it is (no second entry for S).
C10_ReAddReturnsFalse ==
    \A pr \in registered :
        LET r == add_item(first_byte, pr[1], pr[2])
        IN  ~r.ret /\ r.tree = first_byte

\* C11: return value of add.  Every add_item call returns true exactly when
\* it changed the root array (an edge created or split, or a user appended
\* to a users list); when it returns false the tree is as before.
C11_ReturnIffChanged ==
    [][(op'.kind = "add" /\ nOps' = nOps + 1)
       => (op'.ret <=> first_byte' # first_byte)]_vars

\* An add_item call with a phrase that is not empty has returned false, on
\* a tree that holds the pair already.
C11_Witness ==
    /\ nOps = MaxOps /\ op.kind = "add" /\ op.subtext # <<>> /\ ~op.ret
    /\ prev.kind = "add" /\ prev.how = "split"

\* C12: remove_item(P, S) returns false whenever <<P, S>> is not registered
\* at the call (never added, or removed since).
C12_RemoveUnregisteredFalse ==
    [][(op'.kind = "remove" /\ nOps' = nOps + 1
        /\ <<op'.subtext, op'.user>> \notin registered)
       => ~op'.ret]_vars

\* C13: empty phrase rejection.  add_item and remove_item with the empty
\* phrase return false and leave the root array as it is.
C13_EmptyRejected ==
    [][(nOps' = nOps + 1 /\ op'.subtext = <<>>)
       => (~op'.ret /\ first_byte' = first_byte)]_vars

\* Both calls have been made with the empty phrase, on an index that holds
\* a phrase.
C13_Witness ==
    /\ prev.kind = "add" /\ prev.subtext = <<>>
    /\ op.kind = "remove" /\ op.subtext = <<>>
    /\ registered # {} /\ first_byte # NewTree

\* C14: writer exclusivity.  Under every interleaving of the tasks no query
\* reads the tree while a mutation is partly applied (never while the slot
\* of a split is empty), no query and no other writer holds the lock beside
\* a writer, and the users a query returns are those find_all_matches gives
\* on one of the trees that existed between its call and its return.
C14_Linearizable ==
    /\ ~torn
    /\ lock.writer # 0 => lock.readers = {}
    /\ hole => lock.writer # 0
    /\ \A t \in Tasks :
          (task[t].kind = "find" /\ task[t].pc = "idle") =>
              \E tree \in task[t].seen :
                  task[t].users = find_all_matches(tree, task[t].text)

\* A query has returned a user although the tree was changed by a split
\* between its call and its return: the tree at its call gives another
\* result.
C14_Witness ==
    \E t \in Tasks :
        /\ task[t].kind = "find" /\ task[t].pc = "idle"
        /\ Cardinality(task[t].seen) >= 2
        /\ \E tree \in task[t].seen :
              task[t].users # find_all_matches(tree, task[t].text)
        /\ \E u \in Tasks : task[u].kind = "add" /\ task[u].pc = "idle"
              /\ Len(task[u].subtext) < MaxLen

\* The number of delivery tasks the last post spawned for record id.
TasksFor(id) == Len(SelectSeq(lastPost.spawned, LAMBDA x : x = id))

\* C15: exactly once across the passes.  A record that the substring query
\* of a post returned and that is also the entry of the DID map for a DID
\* mentioned in the post gets exactly one delivery task for that post.
C15_ExactlyOnce ==
    \A id \in 1..MaxRecs :
        (id \in Range(lastPost.matched) /\ id \in Range(lastPost.looked))
            => TasksFor(id) = 1

\* A post whose text holds a phrase of a record and that mentions the DID
\* of the same record twice has been processed.
C15_Witness ==
    \E id \in 1..Len(recs) :
        /\ id \in Range(lastPost.matched)
        /\ Len(lastPost.looked) = MaxMentions
        /\ \A i \in 1..Len(lastPost.looked) : lastPost.looked[i] = id
        /\ TasksFor(id) = 1

\* C16: one delivery task per matched record.  For every post, whatever
\* its text and its mentions, at most one delivery task is spawned for any
\* one record.
C16_AtMostOneTask ==
    \A id \in 1..MaxRecs : TasksFor(id) <= 1

\* C17: eviction removes the record everywhere.  Once an evict_user call
\* for a record has returned, no text makes find_all_matches return the
\* record, no entry of the DID map is the record and the users table has
\* no row for its key.
C17_EvictedEverywhere ==
    \A id \in evicted :
        /\ \A text \in Texts : id \notin Found(first_byte, text)
        /\ \A d \in Dids : dids[d] # id
        /\ ~db[recs[id].key].present

\* C18: the downtime rule.  A response with a status that is no success
\* and neither 403 nor 429 sets a downtime start of 0 to the current time
\* without evicting, and evicts only if the downtime start was not 0 and
\* the current time exceeds it by more than two hours; a success sets the
\* downtime start to 0, and a failure that follows a success does not
\* evict.
C18_DowntimeRule ==
    /\ (last.kind = "status" /\ is_success(last.outcome)) =>
          (recs[last.rec].downtime = 0 /\ ~last.evict)
    /\ (last.kind = "status" /\ ~is_success(last.outcome)
            /\ last.outcome \notin {403, 429}) =>
          /\ last.dt_start = 0 =>
                (recs[last.rec].downtime = last.dt_now /\ ~last.evict)
          /\ last.dt_start # 0 => recs[last.rec].downtime = last.dt_start
          /\ last.evict =>
                (last.dt_start # 0 /\ last.dt_now - last.dt_start > TwoHoursMs)
          /\ last.after_ok => ~last.evict

\* A second failure has come a millisecond more than two hours after the
\* first and has evicted the record.
C18_Witness ==
    /\ last.kind = "status" /\ last.outcome = 500
    /\ last.dt_start # 0
    /\ last.dt_now - last.dt_start = TwoHoursMs + 1
    /\ last.evict
    /\ \E i \in 1..Len(evicts) : evicts[i].rec = last.rec

\* The host of the endpoint is a literal IP address.
LiteralIp(endpoint) == endpoint \in {"ipv4", "ipv6"}

\* C19: endpoint health on a transport error.  When the POST fails at
\* transport level the record is evicted if and only if the host of its
\* endpoint is no literal IP address and the lookup of the host fails or
\* gives no address; a record whose host is a literal IP address is not
\* evicted.
C19_EndpointHealth ==
    last.kind = "err" =>
        (last.evict <=> (~LiteralIp(last.endpoint) /\ last.dns \in {"err", "empty"}))

\* C20: the Authorization header gates the reload.  A request makes a
\* record (reload-one) only when its header equals the secret, and is then
\* answered 204; a request with another header value is answered 401, one
\* without the header 400, and both leave the records, the tree and the DID
\* map as they are.
C20_AuthGate ==
    [][cnt'.puts = cnt.puts + 1 =>
          /\ recs' # recs => (resp'.header = "secret" /\ resp'.status = NO_CONTENT)
          /\ resp'.header = "secret" => resp'.status = NO_CONTENT
          /\ resp'.header \in {"other", "opaque"} =>
                /\ resp'.status = UNAUTHORIZED
                /\ recs' = recs /\ first_byte' = first_byte /\ dids' = dids
          /\ resp'.header = "absent" =>
                /\ resp'.status = BAD_REQUEST
                /\ recs' = recs /\ first_byte' = first_byte /\ dids' = dids]_vars

\* C22: removal reaches what insertion placed.  In every reachable state,
\* for every pair <<P, S>> added and not removed since, the descent of
\* find_mut_branch for P arrives at a node whose users hold S, so that
\* remove_item(P, S) returns true.
C22_RemoveReaches ==
    \A pr \in registered :
        LET f == find_mut_branch(first_byte[pr[1][1]], SliceFrom(pr[1], 1))
        IN  /\ f.some
            /\ remove_item(first_byte, pr[1], pr[2]).ret
            /\ pr[2] \in Range(BranchAt(first_byte[pr[1][1]], f.path).users)

\* A branch without its users: the edges and their labels only.
RECURSIVE Shape(_)
Shape(branch) ==
    [i \in 1..Len(branch.mapping) |->
        <<branch.mapping[i][1], Shape(branch.mapping[i][2])>>]

\* The users lists of the children of a branch from the i-th on, parents
\* before children.
RECURSIVE ListsOf(_, _)
ListsOf(branch, i) ==
    IF i > Len(branch.mapping) THEN <<>>
    ELSE <<branch.mapping[i][2].users>> \o ListsOf(branch.mapping[i][2], 1)
            \o ListsOf(branch, i + 1)

\* The users lists of all nodes of a tree.
RECURSIVE TreeLists(_, _)
TreeLists(tree, b) ==
    IF b > MaxByte THEN <<>>
    ELSE <<tree[b].users>> \o ListsOf(tree[b], 1) \o TreeLists(tree, b + 1)

\* The call that turned tree into after left every edge and label as it
\* was and changed at most one users list, from which it deleted only the
\* entries of S; every other user is returned for a text after the call
\* exactly when it was before.
FrameOfOthers(tree, after, S) ==
    LET la == TreeLists(tree, 0)
        lb == TreeLists(after, 0)
    IN  /\ \A b \in Bytes : Shape(after[b]) = Shape(tree[b])
        /\ Cardinality({i \in 1..Len(la) : la[i] # lb[i]}) <= 1
        /\ \A i \in 1..Len(la) :
              lb[i] = SelectSeq(la[i], LAMBDA u : u # S) \/ lb[i] = la[i]
        /\ \A text \in Texts : Found(after, text) \ {S} = Found(tree, text) \ {S}

\* S is still returned for every text that returned it before the removal
\* of P and holds another phrase that S has registered.
KeepsOtherPhrases(tree, after, P, S) ==
    \A text \in Texts :
        (/\ S \in Found(tree, text)
         /\ \E Q \in PhrasesOf(S) \ {P} : Occurs(Q, text))
            => S \in Found(after, text)

\* C23: frame of removal.  In every reachable state a remove_item(P, S)
\* call leaves every edge and label as it is and changes at most one users
\* list, from which it deletes only the entries of S; every other user is
\* returned for a text after the call exactly when it was before; and S is
\* still returned through the other phrases it has registered.
C23_RemoveFrame ==
    \A P \in Phrases, S \in Users :
        LET after == remove_item(first_byte, P, S).tree
        IN  \/ after = first_byte
            \/ /\ FrameOfOthers(first_byte, after, S)
               /\ KeepsOtherPhrases(first_byte, after, P, S)

\* The part of C23 about the edges, the lists and the other users.
RemoveFrameOfOthers ==
    \A P \in Phrases, S \in Users :
        LET after == remove_item(first_byte, P, S).tree
        IN  after = first_byte \/ FrameOfOthers(first_byte, after, S)

\* A users list holds no id twice.
NoDuplicate(users) ==
    \A i, j \in 1..Len(users) : users[i] = users[j] => i = j

\* C24: no duplicate ids in a node.  In every reachable state the users
\* list of every node holds each user id at most once.
C24_NoDuplicateIds ==
    LET l == TreeLists(first_byte, 0)
    IN  \A i \in 1..Len(l) : NoDuplicate(l[i])

\* The same pair has been added again after its first add split an edge:
\* the second add returned false and the junction holds the user once.
C24_Witness ==
    /\ nOps = MaxOps /\ op.kind = "add" /\ ~op.ret
    /\ prev.kind = "add" /\ prev.how = "split"
    /\ op.subtext = prev.subtext /\ op.user = prev.user
    /\ LET l == TreeLists(first_byte, 0)
       IN  \E i \in 1..Len(l) : Len(l[i]) = 1 /\ l[i][1] = op.user

\* The ids in the users lists of the tree.
IdsInIndex ==
    LET l == TreeLists(first_byte, 0)
    IN  UNION {Range(l[i]) : i \in 1..Len(l)}

\* C21: an invalid signing key is skipped.  When the users table holds a
\* row whose private_key is no valid key material, loading (init_data or a
\* reload) skips that row only: the process keeps running after init_data,
\* no record of the row is in the tree or the DID map, and every row with a
\* valid key has been loaded by init_data.
C21_InvalidKeySkipped ==
    cnt.boot # "todo" =>
        /\ cnt.boot = "done"
        /\ \A id \in 1..Len(recs) :
              db[recs[id].key].hex # "ok" =>
                  (id \notin IdsInIndex /\ \A d \in Dids : dids[d] # id)
        /\ \A k \in Keys :
              db[k].hex = "ok" => \E id \in 1..Len(recs) : recs[id].key = k

\* C25: eviction touches only its own entry of the DID map.  The step of
\* evict_user(S) at the DID map leaves the entry of S's DID as it is when
\* the entry is another record than S.
C25_EvictOwnEntry ==
    [][\A i \in 1..Len(evicts) :
          (/\ Len(evicts') = Len(evicts)
           /\ evicts[i].stage = 0 /\ evicts'[i].stage = 1) =>
              LET S == evicts[i].rec
                  d == recs[S].did
              IN  dids[d] # S => dids'[d] = dids[d]]_vars

\* C26: one live record per signing key.  After init_data, reloads and
\* evictions the tree holds records of at most one id for any one key.
C26_OneRecordPerKey ==
    \A id1, id2 \in IdsInIndex :
        recs[id1].key = recs[id2].key => id1 = id2

====
